---- MODULE Spec2Model ----
(***************************************************************************)
(* EMD steganography (EMD_stegano.py): the digit/pixel codec.              *)
(*   - EMD.embed          one action per invocation of embed (recursion)   *)
(*   - EMD.hide           capacity check, then one carrier group at a time *)
(*   - EMD.extract        reads the digits of an image back into bytes     *)
(*   - SECRET.find_printable_substring   the bit-shift / window scan       *)
(***************************************************************************)
EXTENDS Integers, Sequences, FiniteSets, TLC

VARIABLES
    cmd,            \* which entry point runs: "embed", "hide", "extract", "search"
    pc,             \* position of the running operation
    err,            \* exception that ended the operation, "" when none
    n,              \* EMD.n, pixels per stego group
    pixels,         \* Sg.pixels, the list embed mutates in place
    secret_digit,   \* secret_digit.value, the digit embed has to reach
    orig,           \* the group as read from the image (history)
    depth,          \* number of recursive calls of embed so far (history)
    forced,         \* per position: times it was pushed off 0 / 255 (history)
    width, height,  \* Img.width, Img.height
    img,            \* Img.pixels, row-major: pixel (x,y) is img[y*width+x+1]
    img0,           \* the image before the operation (history)
    data,           \* the payload handed to SECRET(...)
    secret_bytes,   \* Secret.bytes
    bits,           \* Secret.bits
    digits,         \* Secret_digits (hide) / Img_digits (extract), as values
    index,          \* loop index of hide
    data_length,    \* the byte length given to extract
    out_bits,       \* extract: the bit stream before truncation
    out,            \* extract: Secret.bytes of the result
    length,         \* find_printable_substring: the window length
    b, i,           \* find_printable_substring: bit shift and byte offset
    raw_bytes,      \* find_printable_substring: the bytes of the current shift
    result          \* find_printable_substring: <<window, i, b>> or <<>> (None)

vars == <<cmd, pc, err, n, pixels, secret_digit, orig, depth, forced,
          width, height, img, img0, data, secret_bytes, bits, digits, index, data_length,
          out_bits, out, length, b, i, raw_bytes, result>>

embedVars == <<pixels, secret_digit, orig, depth, forced>>
imageVars == <<width, height, img, img0>>
secretVars == <<data, secret_bytes, bits>>
extractVars == <<data_length, out_bits, out>>
scanVars == <<length, b, i, raw_bytes, result>>

----------------------------------------------------------------------------
(* Bounds of the model *)

MaxN == 4          \* group sizes 1..MaxN
EdgeWidth == 1     \* samples 0..EdgeWidth and 255-EdgeWidth..255
MaxWidth == 4
MaxHeight == 4
MaxSecretLen == 2  \* payload length in bytes
MaxStep == 1       \* image patterns
MaxScanBytes == 10 \* bytes of the scanned secret
MaxScanLength == 10 \* window lengths 1..MaxScanLength

(* Program constants *)

BYTE_LENGTH == 8
MaxSample == 255
TolerancePercent == 90

----------------------------------------------------------------------------
(* Helpers *)

Abs(v) == IF v < 0 THEN 0 - v ELSE v

CeilDiv(a, d) == (a + d - 1) \div d

RECURSIVE Log2Floor(_)
Log2Floor(v) == IF v < 2 THEN 0 ELSE 1 + Log2Floor(v \div 2)

Base(m) == 2 * m + 1

BitsPerDigit(m) == Log2Floor(Base(m))

\* bin(v)[2:] : the binary digits of v, most significant first, "0" for 0
RECURSIVE Bin(_)
Bin(v) == IF v < 2 THEN <<v>> ELSE Append(Bin(v \div 2), v % 2)

\* str.zfill(w): left-pads with zeros up to w, never truncates
RECURSIVE ZFill(_, _)
ZFill(s, w) == IF Len(s) >= w THEN s ELSE ZFill(<<0>> \o s, w)

\* int(''.join(bits), 2)
RECURSIVE BitsToInt(_)
BitsToInt(s) ==
    IF s = <<>> THEN 0
    ELSE 2 * BitsToInt(SubSeq(s, 1, Len(s) - 1)) + s[Len(s)]

\* Python slice s[lo:hi] with 0 <= lo, clipped at the end of s
Slice(s, lo, hi) ==
    LET h == IF hi > Len(s) THEN Len(s) ELSE hi
    IN IF lo >= h THEN <<>> ELSE SubSeq(s, lo + 1, h)

\* the sequences over A of length at most k
RECURSIVE SeqsUpTo(_, _)
SeqsUpTo(A, k) ==
    IF k = 0 THEN {<<>>}
    ELSE LET shorter == SeqsUpTo(A, k - 1)
         IN shorter \cup {Append(sq, a) : sq \in {t \in shorter : Len(t) = k - 1}, a \in A}

----------------------------------------------------------------------------
(* DIGIT and STEGO_GROUP *)

ConvertToBits(v, m) == ZFill(Bin(v), BitsPerDigit(m))

RECURSIVE WeightedSum(_, _)
WeightedSum(p, k) ==
    IF k = 0 THEN 0 ELSE WeightedSum(p, k - 1) + k * p[k]

GetDigit(p, m) == WeightedSum(p, m) % Base(m)

----------------------------------------------------------------------------
(* EMD.embed: one invocation.  Positions are 1-based here, 0-based in the  *)
(* code.                                                                   *)

EmbedS_Reversed(p, d, m) == (GetDigit(p, m) - d) % Base(m)

EmbedS(p, d, m) == (d - GetDigit(p, m)) % Base(m)

IncrementPos(s) == s

DecrementPos(s, m) == Base(m) - s

AtCeiling_Early(v) == v >= MaxSample - 1

AtCeiling(v) == v = MaxSample

AtFloor_Never(v) == v < 0

AtFloor(v) == v = 0

\* branch taken by one invocation of embed
EmbedBranch(p, d, m) ==
    LET s == EmbedS(p, d, m) IN
    IF GetDigit(p, m) = d THEN "same"
    ELSE IF s <= m
         THEN IF AtCeiling(p[IncrementPos(s)]) THEN "ceiling" ELSE "increment"
         ELSE IF AtFloor(p[DecrementPos(s, m)]) THEN "floor" ELSE "decrement"

\* position touched by one invocation of embed (0 when none)
EmbedPos(p, d, m) ==
    LET s == EmbedS(p, d, m) IN
    IF GetDigit(p, m) = d THEN 0
    ELSE IF s <= m THEN IncrementPos(s) ELSE DecrementPos(s, m)

EmbedStep_KeepsSaturated(p, d, m) ==
    LET br == EmbedBranch(p, d, m)
        pos == EmbedPos(p, d, m)
    IN CASE br = "same" -> p
         [] br = "increment" -> [p EXCEPT ![pos] = p[pos] + 1]
         [] br = "ceiling" -> p
         [] br = "decrement" -> [p EXCEPT ![pos] = p[pos] - 1]
         [] br = "floor" -> p

\* the list after the assignment of one invocation, before any recursive call
EmbedStep(p, d, m) ==
    LET br == EmbedBranch(p, d, m)
        pos == EmbedPos(p, d, m)
    IN CASE br = "same" -> p
         [] br = "increment" -> [p EXCEPT ![pos] = p[pos] + 1]
         [] br = "ceiling" -> [p EXCEPT ![pos] = p[pos] - 1]
         [] br = "decrement" -> [p EXCEPT ![pos] = p[pos] - 1]
         [] br = "floor" -> [p EXCEPT ![pos] = p[pos] + 1]

Recurses(br) == br \in {"ceiling", "floor"}

\* the group embed returns: the invocations chained through the recursion
RECURSIVE EmbedResult(_, _, _)
EmbedResult(p, d, m) ==
    IF Recurses(EmbedBranch(p, d, m))
    THEN EmbedResult(EmbedStep(p, d, m), d, m)
    ELSE EmbedStep(p, d, m)

NoForced(m) == [k \in 1 .. m |-> 0]

EmbedInvocation(br) ==
    /\ pc = "embed"
    /\ EmbedBranch(pixels, secret_digit, n) = br
    /\ pixels' = EmbedStep(pixels, secret_digit, n)
    /\ depth' = IF Recurses(br) THEN depth + 1 ELSE depth
    /\ forced' = IF Recurses(br)
                 THEN [forced EXCEPT ![EmbedPos(pixels, secret_digit, n)] = @ + 1]
                 ELSE forced
    /\ pc' = IF Recurses(br) THEN "embed" ELSE "embedded"
    /\ UNCHANGED <<cmd, err, n, secret_digit, orig, index, digits>>
    /\ UNCHANGED <<imageVars, secretVars, extractVars, scanVars>>

EmbedSame == EmbedInvocation("same")

EmbedIncrement == EmbedInvocation("increment")

EmbedCeiling == EmbedInvocation("ceiling")

EmbedDecrement == EmbedInvocation("decrement")

EmbedFloor == EmbedInvocation("floor")

Embed == EmbedSame \/ EmbedIncrement \/ EmbedCeiling \/ EmbedDecrement \/ EmbedFloor

----------------------------------------------------------------------------
(* SECRET *)

IsBitList(d) == \A k \in 1 .. Len(d) : d[k] \in {0, 1}

\* the loop of SECRET.__init__ that packs a list of bits, 8 at a time; a
\* short last chunk is converted as it is
RECURSIVE PackBits(_)
PackBits(d) ==
    IF d = <<>> THEN <<>>
    ELSE <<BitsToInt(Slice(d, 0, BYTE_LENGTH))>>
         \o PackBits(Slice(d, BYTE_LENGTH, Len(d)))

\* SECRET.__init__ on a bytes object or a list of ints: self.bytes
SecretBytes(d) == IF IsBitList(d) THEN PackBits(d) ELSE d

RECURSIVE BytesToBits(_)
BytesToBits(bs) ==
    IF bs = <<>> THEN <<>>
    ELSE ZFill(Bin(bs[1]), BYTE_LENGTH) \o BytesToBits(Tail(bs))

\* SECRET.bits_to_bytes: complete groups of 8 bits only
BitsToBytes(bl) ==
    [k \in 1 .. (Len(bl) \div BYTE_LENGTH) |->
        BitsToInt(SubSeq(bl, (k - 1) * BYTE_LENGTH + 1, k * BYTE_LENGTH))]

RECURSIVE PadRight(_, _)
PadRight(g, w) == IF Len(g) >= w THEN g ELSE PadRight(Append(g, 0), w)

\* SECRET.get_digits: the values of the digits of the bit stream
RECURSIVE SecretGetDigits(_, _)
SecretGetDigits(bl, m) ==
    IF bl = <<>> THEN <<>>
    ELSE <<BitsToInt(PadRight(Slice(bl, 0, BitsPerDigit(m)), BitsPerDigit(m)))>>
         \o SecretGetDigits(Slice(bl, BitsPerDigit(m), Len(bl)), m)

----------------------------------------------------------------------------
(* IMAGE and STEGO_GROUP on the pixel plane *)

GetXY_Packed(idx, m, w) ==
    LET line == w \div m
    IN <<(idx % line) * (m - 1), idx \div line>>

\* IMAGE.get_xy; the caller has checked that w \div m is not 0
GetXY(idx, m, w) ==
    LET line == w \div m
    IN <<(idx % line) * m, idx \div line>>

\* exception raised by STEGO_GROUP(image, idx, m), "" when it is built
GroupError(idx, m, w, h) ==
    IF w \div m = 0 THEN "ZeroDivisionError"
    ELSE LET xy == GetXY(idx, m, w)
         IN IF xy[1] + m - 1 >= w \/ xy[2] >= h THEN "IndexError" ELSE ""

\* cells (row-major, 1-based) of the group of digit idx
GroupCells(idx, m, w) ==
    LET xy == GetXY(idx, m, w)
    IN [k \in 1 .. m |-> xy[2] * w + xy[1] + k]

\* STEGO_GROUP.get_pixels
GetPixels(im, idx, m, w) ==
    LET c == GroupCells(idx, m, w) IN [k \in 1 .. m |-> im[c[k]]]

\* STEGO_GROUP.set_pixels
SetPixels(im, idx, m, w, vals) ==
    LET c == GroupCells(idx, m, w)
    IN [q \in 1 .. Len(im) |->
          IF \E k \in 1 .. m : c[k] = q
          THEN vals[CHOOSE k \in 1 .. m : c[k] = q]
          ELSE im[q]]

----------------------------------------------------------------------------
(* EMD.hide *)

RequiredDigits(bl, m) == CeilDiv(Len(bl), BitsPerDigit(m))

TooSmall(w, h, bl, m) == w * h < RequiredDigits(bl, m) * m

\* line 286-287: the message of the ValueError is an f-string that reads the
\* global n, which the hide command never binds: building it raises
\* NameError before ValueError is constructed
HideTooSmall ==
    /\ cmd = "hide" /\ pc = "hide"
    /\ TooSmall(width, height, bits, n)
    /\ err' = "NameError"
    /\ pc' = "failed"
    /\ UNCHANGED <<cmd, n, digits, index>>
    /\ UNCHANGED <<embedVars, imageVars, secretVars, extractVars, scanVars>>

HideBegin ==
    /\ cmd = "hide" /\ pc = "hide"
    /\ ~TooSmall(width, height, bits, n)
    /\ digits' = SecretGetDigits(bits, n)
    /\ index' = 0
    /\ pc' = "hide_loop"
    /\ UNCHANGED <<cmd, err, n>>
    /\ UNCHANGED <<embedVars, imageVars, secretVars, extractVars, scanVars>>

\* Sg = STEGO_GROUP(Img, index, n), then the call of embed
HideGroup ==
    /\ cmd = "hide" /\ pc = "hide_loop"
    /\ index < Len(digits)
    /\ GroupError(index, n, width, height) = ""
    /\ pixels' = GetPixels(img, index, n, width)
    /\ orig' = pixels'
    /\ secret_digit' = digits[index + 1]
    /\ depth' = 0
    /\ forced' = NoForced(n)
    /\ pc' = "embed"
    /\ UNCHANGED <<cmd, err, n, digits, index>>
    /\ UNCHANGED <<imageVars, secretVars, extractVars, scanVars>>

\* STEGO_GROUP(...) raises: hide ends there, earlier groups stay written
HideGroupFails ==
    /\ cmd = "hide" /\ pc = "hide_loop"
    /\ index < Len(digits)
    /\ GroupError(index, n, width, height) # ""
    /\ err' = GroupError(index, n, width, height)
    /\ pc' = "failed"
    /\ UNCHANGED <<cmd, n, digits, index>>
    /\ UNCHANGED <<embedVars, imageVars, secretVars, extractVars, scanVars>>

\* Sg.set_pixels(new_Sg.pixels), end of one loop iteration
HideSetPixels ==
    /\ cmd = "hide" /\ pc = "embedded"
    /\ img' = SetPixels(img, index, n, width, pixels)
    /\ index' = index + 1
    /\ pc' = "hide_loop"
    /\ UNCHANGED <<cmd, err, n, digits, width, height, img0>>
    /\ UNCHANGED <<embedVars, secretVars, extractVars, scanVars>>

HideReturn ==
    /\ cmd = "hide" /\ pc = "hide_loop"
    /\ index = Len(digits)
    /\ pc' = "hidden"
    /\ UNCHANGED <<cmd, err, n, digits, index>>
    /\ UNCHANGED <<embedVars, imageVars, secretVars, extractVars, scanVars>>

----------------------------------------------------------------------------
(* EMD.extract *)

NbDigits(len, m) == CeilDiv(len * BYTE_LENGTH, BitsPerDigit(m))

\* IMAGE.get_digits: the digit values of groups 0 .. nb-1
ImageDigits(im, nb, m, w) ==
    [k \in 1 .. nb |-> GetDigit(GetPixels(im, k - 1, m, w), m)]

RECURSIVE ExpandDigits(_, _)
ExpandDigits(ds, m) ==
    IF ds = <<>> THEN <<>>
    ELSE ConvertToBits(ds[1], m) \o ExpandDigits(Tail(ds), m)

ExtractFailing(nb, m, w, h) ==
    {k \in 0 .. nb - 1 : GroupError(k, m, w, h) # ""}

Min(S) == CHOOSE v \in S : \A u \in S : v <= u

ExtractOk ==
    /\ pc \in {"hidden", "extract"}
    /\ ExtractFailing(NbDigits(data_length, n), n, width, height) = {}
    /\ digits' = ImageDigits(img, NbDigits(data_length, n), n, width)
    /\ out_bits' = ExpandDigits(digits', n)
    /\ out' = SecretBytes(Slice(out_bits', 0, data_length * BYTE_LENGTH))
    /\ pc' = "extracted"
    /\ UNCHANGED <<cmd, err, n, index, data_length>>
    /\ UNCHANGED <<embedVars, imageVars, secretVars, scanVars>>

ExtractFails ==
    /\ pc \in {"hidden", "extract"}
    /\ ExtractFailing(NbDigits(data_length, n), n, width, height) # {}
    /\ err' = GroupError(Min(ExtractFailing(NbDigits(data_length, n), n, width, height)),
                         n, width, height)
    /\ pc' = "extract_failed"
    /\ UNCHANGED <<cmd, n, digits, index>>
    /\ UNCHANGED <<embedVars, imageVars, secretVars, extractVars, scanVars>>

----------------------------------------------------------------------------
(* Specification of hide followed by extract, and of extract on an image   *)
(* that was never used for hiding                                          *)

Palette == <<0, 255, 1, 254, 128, 77>>

ImagePattern(w, h, start, step) ==
    [q \in 1 .. w * h |-> Palette[((start + (q - 1) * step) % Len(Palette)) + 1]]

ByteAlphabet == {1, 167}

InitCodec ==
    /\ cmd \in {"hide", "extract"}
    /\ pc = cmd
    /\ err = ""
    /\ n \in 1 .. MaxN
    /\ width \in 1 .. MaxWidth
    /\ height \in 1 .. MaxHeight
    /\ \E start \in 0 .. Len(Palette) - 1, step \in 0 .. MaxStep :
          img = ImagePattern(width, height, start, step)
    /\ img0 = img
    /\ IF cmd = "hide"
       THEN /\ data \in SeqsUpTo(ByteAlphabet, MaxSecretLen)
            /\ data_length = Len(data)
       ELSE /\ data = <<>>
            /\ data_length \in 0 .. MaxSecretLen
    /\ secret_bytes = SecretBytes(data)
    /\ bits = BytesToBits(secret_bytes)
    /\ pixels = <<>> /\ secret_digit = 0 /\ orig = <<>>
    /\ depth = 0 /\ forced = <<>>
    /\ digits = <<>> /\ index = 0
    /\ out_bits = <<>> /\ out = <<>>
    /\ length = 0 /\ b = 0 /\ i = 0 /\ raw_bytes = <<>> /\ result = <<>>

NextCodec ==
    \/ HideTooSmall
    \/ HideBegin
    \/ HideGroup
    \/ HideGroupFails
    \/ Embed
    \/ HideSetPixels
    \/ HideReturn
    \/ ExtractOk
    \/ ExtractFails

SpecCodec == InitCodec /\ [][NextCodec]_vars

----------------------------------------------------------------------------
(* SECRET.find_printable_substring *)

\* raw_bytes = self.bits_to_bytes(self.bits[b:])
RawBytes(bl, sh) == BitsToBytes(Slice(bl, sh, Len(bl)))

\* bytes.decode('utf-8', errors='ignore').  Bytes below 0x80 decode to the
\* character of that code; bytes 0x80..0xBF cannot start a sequence and are
\* dropped.  The streams of ScanAlphabet never hold two adjacent 1 bits, so
\* at no shift does a lead byte (0xC2..0xF4) occur.
Utf8DecodeIgnore(ws) == SelectSeq(ws, LAMBDA c : c < 128)

\* str.isprintable() on a character below U+0080
IsPrintable(c) == c >= 32 /\ c <= 126

PrintableCount(ws) == Len(SelectSeq(Utf8DecodeIgnore(ws), IsPrintable))

WindowAccepted_Strict(ws, len) == PrintableCount(ws) * 100 > TolerancePercent * len

\* (printable_count / length) >= tolerance
WindowAccepted(ws, len) == PrintableCount(ws) * 100 >= TolerancePercent * len

\* substring_bytes = raw_bytes[i:i + length]
Window(raw, off, len) == Slice(raw, off, off + len)

\* range(len(raw_bytes) - length + 1) still has the offset off
InRange(raw, off, len) == off < Len(raw) - len + 1

ScanMatch ==
    /\ cmd = "search" /\ pc = "scan"
    /\ b < BYTE_LENGTH
    /\ InRange(raw_bytes, i, length)
    /\ WindowAccepted(Window(raw_bytes, i, length), length)
    /\ result' = <<Window(raw_bytes, i, length), i, b>>
    /\ pc' = "scan_done"
    /\ UNCHANGED <<cmd, err, n, digits, index, length, b, i, raw_bytes>>
    /\ UNCHANGED <<embedVars, imageVars, secretVars, extractVars>>

ScanSkip ==
    /\ cmd = "search" /\ pc = "scan"
    /\ b < BYTE_LENGTH
    /\ InRange(raw_bytes, i, length)
    /\ ~WindowAccepted(Window(raw_bytes, i, length), length)
    /\ i' = i + 1
    /\ UNCHANGED <<cmd, pc, err, n, digits, index, length, b, raw_bytes, result>>
    /\ UNCHANGED <<embedVars, imageVars, secretVars, extractVars>>

\* the inner loop is exhausted: next b, raw_bytes recomputed
ScanNextShift ==
    /\ cmd = "search" /\ pc = "scan"
    /\ b < BYTE_LENGTH
    /\ ~InRange(raw_bytes, i, length)
    /\ b' = b + 1
    /\ i' = 0
    /\ raw_bytes' = IF b' < BYTE_LENGTH THEN RawBytes(bits, b') ELSE raw_bytes
    /\ UNCHANGED <<cmd, pc, err, n, digits, index, length, result>>
    /\ UNCHANGED <<embedVars, imageVars, secretVars, extractVars>>

\* return None
ScanNone ==
    /\ cmd = "search" /\ pc = "scan"
    /\ b = BYTE_LENGTH
    /\ result' = <<>>
    /\ pc' = "scan_done"
    /\ UNCHANGED <<cmd, err, n, digits, index, length, b, i, raw_bytes>>
    /\ UNCHANGED <<embedVars, imageVars, secretVars, extractVars>>

\* 0x10 (a control character) and 0x41 ('A')
ScanAlphabet == {16, 65}

InitScan ==
    /\ cmd = "search"
    /\ pc = "scan"
    /\ err = ""
    /\ n = 2
    /\ data \in SeqsUpTo(ScanAlphabet, MaxScanBytes)
    /\ secret_bytes = SecretBytes(data)
    /\ bits = BytesToBits(secret_bytes)
    /\ length \in 1 .. MaxScanLength
    /\ b = 0 /\ i = 0 /\ result = <<>>
    /\ raw_bytes = RawBytes(bits, 0)
    /\ pixels = <<>> /\ secret_digit = 0 /\ orig = <<>>
    /\ depth = 0 /\ forced = <<>>
    /\ width = 0 /\ height = 0 /\ img = <<>> /\ img0 = <<>>
    /\ digits = <<>> /\ index = 0
    /\ data_length = 0 /\ out_bits = <<>> /\ out = <<>>

NextScan == ScanMatch \/ ScanSkip \/ ScanNextShift \/ ScanNone

SpecScan == InitScan /\ [][NextScan]_vars

----------------------------------------------------------------------------
(* Specification of embed alone: any group, any target digit *)

Samples == (0 .. EdgeWidth) \cup ((MaxSample - EdgeWidth) .. MaxSample)

InitEmbed ==
    /\ cmd = "embed"
    /\ pc = "embed"
    /\ err = ""
    /\ n \in 1 .. MaxN
    /\ pixels \in [1 .. n -> Samples]
    /\ secret_digit \in 0 .. (Base(n) - 1)
    /\ orig = pixels
    /\ depth = 0
    /\ forced = NoForced(n)
    /\ width = 0 /\ height = 0 /\ img = <<>> /\ img0 = <<>>
    /\ data = <<>> /\ secret_bytes = <<>> /\ bits = <<>>
    /\ digits = <<>> /\ index = 0
    /\ data_length = 0 /\ out_bits = <<>> /\ out = <<>>
    /\ length = 0 /\ b = 0 /\ i = 0 /\ raw_bytes = <<>> /\ result = <<>>

NextEmbed == Embed

SpecEmbed == InitEmbed /\ [][NextEmbed]_vars

\* embed is a synchronous call: once entered it runs to its return
SpecEmbedFair == SpecEmbed /\ WF_vars(NextEmbed)

----------------------------------------------------------------------------
(* Properties of embed *)

Interior(p) == \A k \in DOMAIN p : p[k] >= 1 /\ p[k] <= MaxSample - 1

Changed(p, q) == {k \in DOMAIN p : p[k] # q[k]}

\* C2: embed returns a group whose weighted-sum digit equals the target
\* digit, for every group of samples in [0,255] and every target digit.
C2_EmbedReachesTarget ==
    (cmd = "embed" /\ pc = "embedded") =>
        GetDigit(pixels, n) = secret_digit

C2_Witness ==
    /\ cmd = "embed" /\ pc = "embedded"
    /\ GetDigit(orig, n) # secret_digit
    /\ GetDigit(pixels, n) = secret_digit
    /\ depth >= 1

\* C3: every sample of the group returned by embed differs from the input
\* sample by at most 1.
C3_BoundedPerturbation ==
    (cmd = "embed" /\ pc = "embedded") =>
        \A k \in 1 .. n : Abs(pixels[k] - orig[k]) <= 1

\* C4: when every input sample is strictly inside [1,254], embed changes no
\* position if the digit already matches, otherwise exactly one position by
\* exactly 1, and makes no recursive call.
C4_InteriorSingleChange ==
    (cmd = "embed" /\ Interior(orig)) =>
        /\ depth = 0
        /\ pc = "embedded" =>
              /\ Cardinality(Changed(orig, pixels)) =
                    (IF GetDigit(orig, n) = secret_digit THEN 0 ELSE 1)
              /\ \A k \in Changed(orig, pixels) : Abs(pixels[k] - orig[k]) = 1

C4_Witness ==
    /\ cmd = "embed" /\ pc = "embedded"
    /\ Interior(orig)
    /\ n >= 2
    /\ Cardinality(Changed(orig, pixels)) = 1

\* C9: the recursion of embed terminates, makes at most n recursive calls
\* and pushes each position off a saturated value at most once.
C9_RecursionBounded ==
    /\ [](cmd = "embed" =>
            /\ depth <= n
            /\ \A k \in 1 .. n : forced[k] <= 1)
    /\ <>(pc = "embedded")

C9_Witness ==
    /\ cmd = "embed" /\ pc = "embedded"
    /\ depth >= 2
    /\ \E k \in 1 .. n : forced[k] = 1 /\ orig[k] = MaxSample
    /\ \E k \in 1 .. n : forced[k] = 1 /\ orig[k] = 0

----------------------------------------------------------------------------
(* Properties of hide and extract *)

\* C1: hide(S, image) followed by extract(image, len(S)) returns S, for
\* every S the capacity check of hide accepts and every n >= 2.
C1_RoundTrip ==
    (/\ cmd = "hide" /\ n >= 2
     /\ ~TooSmall(width, height, bits, n)
     /\ pc \in {"failed", "extract_failed", "extracted"})
        => (pc = "extracted" /\ out = data)

\* C5: when the image is too small, hide fails with the capacity error
\* (ValueError, required against available pixels) and writes no pixel.
C5_CapacityError ==
    (cmd = "hide" /\ pc # "hide" /\ TooSmall(width, height, bits, n))
        => (pc = "failed" /\ err = "ValueError" /\ img = img0)

\* C6: once the capacity check has passed, hide never requests a group
\* outside the plane: no out-of-bounds access, no partially written image.
C6_NoOutOfBounds ==
    (cmd = "hide" /\ ~TooSmall(width, height, bits, n))
        => ~(pc = "failed" /\ err \in {"IndexError", "ZeroDivisionError"})

GroupCoords(idx, m, w) ==
    LET xy == GetXY(idx, m, w)
    IN {<<xy[1] + t, xy[2]>> : t \in 0 .. m - 1}

ProcessGroup(im, idx) ==
    SetPixels(im, idx, n, width,
              EmbedResult(GetPixels(im, idx, n, width), digits[idx + 1], n))

\* groups k-1, k-2, .. 0 processed in that order
RECURSIVE HideDescending(_, _)
HideDescending(im, k) ==
    IF k = 0 THEN im ELSE HideDescending(ProcessGroup(im, k - 1), k - 1)

\* C7: for 1 <= n <= W the group of digit i starts at
\* ((i mod (W div n)) * n, i div (W div n)), lies in one row, shares no
\* pixel with the group of another digit, and the image hide produces is
\* the one produced by processing the groups in the opposite order.
C7_GroupPlacement ==
    (cmd = "hide" /\ n <= width) =>
        /\ pc = "hide" => \A idx \in 0 .. width * height :
              /\ GetXY(idx, n, width) =
                    <<(idx % (width \div n)) * n, idx \div (width \div n)>>
              /\ \A c \in GroupCoords(idx, n, width) :
                    c[1] < width /\ c[2] = idx \div (width \div n)
              /\ \A jdx \in 0 .. width * height :
                    idx # jdx =>
                       GroupCoords(idx, n, width) \cap GroupCoords(jdx, n, width) = {}
        /\ pc = "hidden" => img = HideDescending(img0, Len(digits))

C7_Witness ==
    /\ cmd = "hide" /\ pc = "hidden"
    /\ n >= 2
    /\ width \div n >= 2
    /\ Len(digits) > width \div n
    /\ Cardinality({q \in 1 .. Len(img) : img[q] # img0[q]}) >= 3

\* C10: in extract every digit read from the image expands to exactly
\* bitsPerDigit bits, so digit k occupies bits k*bitsPerDigit ..
\* (k+1)*bitsPerDigit-1 of the stream before truncation.
C10_FixedWidthDigits ==
    pc = "extracted" =>
        /\ Len(out_bits) = Len(digits) * BitsPerDigit(n)
        /\ \A k \in 1 .. Len(digits) :
              BitsToInt(Slice(out_bits, (k - 1) * BitsPerDigit(n),
                              k * BitsPerDigit(n))) = digits[k]

----------------------------------------------------------------------------
(* Properties of the scanner *)

\* byte k (from 0) of the stream with its first sh bits removed
ShiftedByte(sh, k) ==
    LET bit(j) == bits[sh + BYTE_LENGTH * k + j]
    IN 128 * bit(1) + 64 * bit(2) + 32 * bit(3) + 16 * bit(4)
       + 8 * bit(5) + 4 * bit(6) + 2 * bit(7) + bit(8)

ShiftedLen(sh) ==
    IF Len(bits) < sh THEN 0 ELSE (Len(bits) - sh) \div BYTE_LENGTH

\* the window of `length` bytes at offset off of shift sh reaches 90 %
Qualifies(sh, off) ==
    10 * Cardinality({k \in off .. off + length - 1 :
                        ShiftedByte(sh, k) >= 32 /\ ShiftedByte(sh, k) <= 126})
        >= 9 * length

ScanOrder ==
    {c \in (0 .. BYTE_LENGTH - 1) \X (0 .. MaxScanBytes + 1) :
        c[2] + length <= ShiftedLen(c[1])}

Earlier(c, d) == c[1] < d[1] \/ (c[1] = d[1] /\ c[2] < d[2])

\* C8: the scan returns (window, offset, shift) of the first window, shifts
\* 0..7 in increasing order and offsets increasing within a shift, whose
\* printable share is >= 0.90, and None exactly when no window qualifies.
C8_ScannerFirstMatch ==
    (cmd = "search" /\ pc = "scan_done") =>
        /\ result = <<>> <=> ~ \E c \in ScanOrder : Qualifies(c[1], c[2])
        /\ result # <<>> =>
              \E c \in ScanOrder :
                 /\ Qualifies(c[1], c[2])
                 /\ \A d \in ScanOrder : Earlier(d, c) => ~Qualifies(d[1], d[2])
                 /\ result = <<[k \in 1 .. length |-> ShiftedByte(c[1], c[2] + k - 1)],
                              c[2], c[1]>>

C8_Witness ==
    /\ cmd = "search" /\ pc = "scan_done"
    /\ result # <<>>
    /\ length = 10
    /\ \E k \in 1 .. length : result[1][k] = 16

C8_WitnessShifted ==
    /\ cmd = "search" /\ pc = "scan_done"
    /\ result # <<>>
    /\ result[3] >= 1 /\ result[2] >= 1

C8_WitnessNone ==
    /\ cmd = "search" /\ pc = "scan_done"
    /\ result = <<>> /\ Len(data) > length

ScanDomainOk == (cmd = "search" /\ b = 0 /\ i = 0 /\ length = 1) => \A sh \in 0 .. BYTE_LENGTH - 1 :
    \A k \in 1 .. Len(RawBytes(bits, sh)) : RawBytes(bits, sh)[k] < 192

----------------------------------------------------------------------------
(* Properties of SECRET construction *)

\* bit j (1 = most significant) of the 8-bit expansion of byte v
BitOf(v, j) ==
    CASE j = 1 -> (v \div 128) % 2
      [] j = 2 -> (v \div 64) % 2
      [] j = 3 -> (v \div 32) % 2
      [] j = 4 -> (v \div 16) % 2
      [] j = 5 -> (v \div 8) % 2
      [] j = 6 -> (v \div 4) % 2
      [] j = 7 -> (v \div 2) % 2
      [] j = 8 -> v % 2

\* C11: a SECRET built from a byte buffer B keeps B as its bytes, and its
\* bits are the 8-bit most-significant-first expansions of the bytes of B,
\* 8 * len(B) bits in all.
C11_SecretKeepsBytes ==
    cmd = "hide" =>
        /\ secret_bytes = data
        /\ Len(bits) = BYTE_LENGTH * Len(data)
        /\ \A k \in 1 .. Len(data) : \A j \in 1 .. BYTE_LENGTH :
              bits[(k - 1) * BYTE_LENGTH + j] = BitOf(data[k], j)

----------------------------------------------------------------------------
(* Sample range, over embed alone and embed inside hide *)

InitRange == InitEmbed \/ InitCodec

SpecRange == InitRange /\ [][NextCodec]_vars

InRange255(v) == v >= 0 /\ v <= 255

\* C12: every group embed passes through, intermediate or final, and every
\* pixel of the image hide writes to, has its samples in [0,255].
C12_SampleRange ==
    /\ \A k \in 1 .. Len(pixels) : InRange255(pixels[k])
    /\ \A q \in 1 .. Len(img) : InRange255(img[q])

C12_Witness ==
    /\ cmd = "hide" /\ pc = "hide_loop"
    /\ index >= 1
    /\ depth >= 1
    /\ \E k \in 1 .. n : orig[k] \in {0, 255} /\ pixels[k] # orig[k]
    /\ img # img0
    /\ GetPixels(img, index - 1, n, width) = pixels

====
